---- MODULE Spec2Model ----
(***************************************************************************)
(* Model of src/src/response.rs: the Response lifecycle (Waiting/Loading), *)
(* Response::resolve, the Chunks stream over its backends, BodyAdapter and *)
(* the poll-mapping helpers.                                               *)
(*                                                                         *)
(* The transport (hyper's ResponseFuture and Body) and the codecs are the  *)
(* environment: the pending response resolves to a transport error or to a *)
(* status and a body; the body is a finite sequence of items (a buffer or  *)
(* a transport error) that arrive one at a time.  The codecs are modelled  *)
(* by a framed substitution code (a magic byte, one code byte per payload  *)
(* byte, an end mark) decoded by a streaming state machine, so that        *)
(* decoding is computed and can fail.                                      *)
(***************************************************************************)
EXTENDS Integers, Sequences, FiniteSets, TLC

\* ------------------------------------------------------------- bounds
\* longest payload / error body, in bytes
MaxLen == 2
\* most items a run lets poll_next yield (a failed decoder can yield for ever)
MaxYield == 6

\* ------------------------------------------------------------- data
\* payload bytes; byte 0 stands for a whitespace character
Byte == 0 .. 1

\* Compression (crate::compression::Compression), all features compiled in
Compressions == {"None", "Lz4", "Gzip", "Zlib", "Brotli"}

\* the decoders that read their input through BodyAdapter
Adapted == {"Gzip", "Zlib", "Brotli"}

\* StatusCode::OK
StatusOK == 200

\* the statuses a response arrives with: OK, another 2xx, a server error
Statuses == {200, 204, 500}


RECURSIVE SeqsUpTo(_, _)
\* all sequences over S of length <= n
SeqsUpTo(S, n) ==
  IF n = 0 THEN {<< >>}
  ELSE LET shorter == SeqsUpTo(S, n - 1)
       IN  shorter \cup {Append(s, x) : s \in {t \in shorter : Len(t) = n - 1}, x \in S}

Payloads == SeqsUpTo(Byte, MaxLen)

\* bytes::Bytes (canonical) and bytes_05::Bytes (legacy) are distinct types
Bytes(d) == [ty |-> "Bytes", data |-> d]

Bytes05(d) == [ty |-> "bytes_05::Bytes", data |-> d]

\* Result values
Ok(v) == [tag |-> "Ok", val |-> v]

Err(e) == [tag |-> "Err", val |-> e]

\* Poll<Option<_>> values
Pending == [poll |-> "Pending"]

ReadyNone == [poll |-> "None"]

ReadySome(item) == [poll |-> "Some", item |-> item]

\* what the pending response resolves to: a transport error, or a response
\* with a status
Outcomes == {Err([ty |-> "hyper::Error"])} \cup {Ok(st) : st \in Statuses}

\* errors: hyper::Error, the unified crate::error::Error, std::io::Error
NoSource == [ty |-> "none"]

HyperError == [ty |-> "hyper::Error"]

Transport(src) == [ty |-> "Error", class |-> "Transport", src |-> src]

BadResponse(reason) == [ty |-> "Error", class |-> "BadResponse", src |-> reason]

Decode(src) == [ty |-> "Error", class |-> "Decode", src |-> src]

IoError(kind, inner) == [ty |-> "io::Error", kind |-> kind, inner |-> inner]

\* From<hyper::Error> for Error (the `?` of resolve, Into::into of poll_next)
FromHyper(e) == Transport(e)

\* Error::into_io: an I/O error that carries the unified error
into_io(e) == IoError("Other", e)

\* Error::decode_io: an I/O error of a decoder becomes a Decode error
decode_io(e) == Decode(e)

\* to_bytes05: copy into a vector, then into the legacy buffer
to_bytes05(b) == Bytes05([i \in 1 .. Len(b.data) |-> b.data[i]])

\* from_bytes05 that loses the first byte of the buffer
from_bytes05_tail(b) == Bytes([i \in 1 .. Len(b.data) - 1 |-> b.data[i + 1]])

\* from_bytes05: copy into a vector, then into the canonical buffer
from_bytes05(b) == Bytes([i \in 1 .. Len(b.data) |-> b.data[i]])

\* ------------------------------------------------------------- codecs
\* first byte of a compressed stream, one per algorithm
Magic(a) ==
  CASE a = "Lz4" -> 21 [] a = "Gzip" -> 22 [] a = "Zlib" -> 23 [] a = "Brotli" -> 24

\* last byte of a compressed stream
EndMark == 30

\* a byte no compressed stream contains
BadByte == 99

\* the substitution each algorithm applies to a payload byte
Key(a) ==
  CASE a = "Lz4" -> 0 [] a = "Gzip" -> 1 [] a = "Zlib" -> 0 [] a = "Brotli" -> 1

EncByte(a, b) == 10 + ((b + Key(a)) % 2)

IsCode(w) == w \in {10, 11}

DecByte(a, w) == (w - 10 + Key(a)) % 2

\* the bytes on the wire for payload p under algorithm a
Compress(a, p) ==
  IF a = "None" THEN p
  ELSE <<Magic(a)>> \o [i \in 1 .. Len(p) |-> EncByte(a, p[i])] \o <<EndMark>>

RECURSIVE Concat(_)
\* concatenation of a sequence of byte sequences
Concat(ss) == IF ss = << >> THEN << >> ELSE Head(ss) \o Concat(Tail(ss))

RECURSIVE Splits(_)
\* every way to cut w into non-empty consecutive chunks
Splits(w) ==
  IF w = << >> THEN {<< >>}
  ELSE UNION {{<<SubSeq(w, 1, k)>> \o rest : rest \in Splits(SubSeq(w, k + 1, Len(w)))}
              : k \in 1 .. Len(w)}

\* ------------------------------------------------------------- transport
\* hyper::Body as a stream: `avail` events (items, then the end) have arrived
\* and wait to be polled; the end of the body, once reached, stays
BodyPoll(body, avail) ==
  IF avail = 0 THEN [res |-> Pending, body |-> body, avail |-> avail]
  ELSE IF body = << >> THEN [res |-> ReadyNone, body |-> body, avail |-> avail]
  ELSE [res |-> ReadySome(Head(body)), body |-> Tail(body), avail |-> avail - 1]

\* map_poll_err that holds an error back: the caller is told to wait
map_poll_err_retry(poll) ==
  IF poll.poll = "Some" /\ poll.item.tag = "Err" THEN Pending ELSE poll

\* map_poll_err that ends the stream at an error instead of yielding it
map_poll_err_stop(poll) ==
  IF poll.poll = "Some" /\ poll.item.tag = "Ok" THEN ReadySome(Ok(poll.item.val))
  ELSE IF poll.poll = "Pending" THEN Pending
  ELSE ReadyNone

\* map_poll_err(poll, f) with f = Into::into (hyper::Error -> Error)
map_poll_err(poll) ==
  IF poll.poll = "Some"
  THEN IF poll.item.tag = "Ok" THEN ReadySome(Ok(poll.item.val))
       ELSE ReadySome(Err(FromHyper(poll.item.val)))
  ELSE IF poll.poll = "None" THEN ReadyNone
  ELSE Pending

\* map_compression_poll that hands back the unified error an I/O error carries
map_compression_poll_unwrap(poll) ==
  IF poll.poll = "Some"
  THEN IF poll.item.tag = "Ok" THEN ReadySome(Ok(from_bytes05(poll.item.val)))
       ELSE IF poll.item.val.inner.ty = "Error"
       THEN ReadySome(Err(poll.item.val.inner))
       ELSE ReadySome(Err(decode_io(poll.item.val)))
  ELSE IF poll.poll = "None" THEN ReadyNone
  ELSE Pending

\* map_compression_poll
map_compression_poll(poll) ==
  IF poll.poll = "Some"
  THEN IF poll.item.tag = "Ok" THEN ReadySome(Ok(from_bytes05(poll.item.val)))
       ELSE ReadySome(Err(decode_io(poll.item.val)))
  ELSE IF poll.poll = "None" THEN ReadyNone
  ELSE Pending

\* lines 133-138: what BodyAdapter makes of a poll of the body: buffers are
\* copied to the legacy type, transport errors turned into I/O errors
Adapt(r) ==
  [r EXCEPT !.res =
     IF r.res.poll = "Some"
     THEN IF r.res.item.tag = "Ok"
          THEN ReadySome(Ok(to_bytes05(r.res.item.val)))
          ELSE ReadySome(Err(into_io(FromHyper(r.res.item.val))))
     ELSE r.res]

\* BodyAdapter::poll_next
BodyAdapterPoll(body, avail) == Adapt(BodyPoll(body, avail))

\* ------------------------------------------------------------- decoders
\* a decoder as constructed: expects the magic byte, holds no input
NewDecoder == [phase |-> "Header", input |-> << >>, failed |-> FALSE]

RECURSIVE DecodeStep(_, _, _, _)
\* decode the longest valid prefix of the input held: the phase reached, the
\* input left, the payload bytes produced, whether the next byte is invalid
DecodeStep(a, phase, input, out) ==
  IF input = << >> \/ phase = "Done"
  THEN [phase |-> phase, input |-> input, out |-> out, bad |-> FALSE]
  ELSE IF phase = "Header"
  THEN IF Head(input) = Magic(a) THEN DecodeStep(a, "Data", Tail(input), out)
       ELSE [phase |-> phase, input |-> input, out |-> out, bad |-> TRUE]
  ELSE IF IsCode(Head(input))
  THEN DecodeStep(a, "Data", Tail(input), Append(out, DecByte(a, Head(input))))
  ELSE IF Head(input) = EndMark
  THEN [phase |-> "Done", input |-> Tail(input), out |-> out, bad |-> FALSE]
  ELSE [phase |-> phase, input |-> input, out |-> out, bad |-> TRUE]

\* the result of one poll of a decoder
Polled(res, out, err, dec, body, avail, polls) ==
  [res |-> res, out |-> out, err |-> err, dec |-> dec, body |-> body,
   avail |-> avail, polls |-> polls]

RECURSIVE DecoderPoll(_, _, _, _, _)
RECURSIVE DecoderRead(_, _, _, _)
RECURSIVE DecoderWrite(_, _, _, _, _, _)

\* one poll_next of a decoder stream: decode what is held, read the input
\* stream when nothing is held, until there is output, an error, the end of
\* the compressed stream, or the input is pending.  An error leaves the
\* decoder where it was.  `polls` counts the polls of the raw body.
DecoderPoll(a, dec, body, avail, polls) ==
  IF dec.phase = "Done"
  THEN Polled("None", << >>, NoSource, dec, body, avail, polls)
  ELSE IF dec.input = << >>
  THEN DecoderRead(a, dec, polls + 1,
                   IF a \in Adapted THEN BodyAdapterPoll(body, avail)
                   ELSE BodyPoll(body, avail))
  ELSE DecoderWrite(a, dec, body, avail, polls,
                    DecodeStep(a, dec.phase, dec.input, << >>))

\* the decoder holds no input and has polled its input stream, which gave r
DecoderRead(a, dec, polls, r) ==
  IF r.res.poll = "Pending"
  THEN Polled("Pending", << >>, NoSource, dec, r.body, r.avail, polls)
  ELSE IF r.res.poll = "None"
  THEN Polled("Fail", << >>, IoError("UnexpectedEof", NoSource),
              [dec EXCEPT !.failed = TRUE], r.body, r.avail, polls)
  ELSE IF r.res.item.tag = "Err"
  THEN Polled("Fail", << >>,
              IF a \in Adapted THEN r.res.item.val
              ELSE into_io(FromHyper(r.res.item.val)),
              [dec EXCEPT !.failed = TRUE], r.body, r.avail, polls)
  ELSE DecoderPoll(a, [dec EXCEPT !.input = r.res.item.val.data],
                   r.body, r.avail, polls)

\* the decoder has decoded the input it held, which gave d
DecoderWrite(a, dec, body, avail, polls, d) ==
  IF d.out # << >>
  THEN Polled("Data", d.out, NoSource,
              [dec EXCEPT !.phase = d.phase, !.input = d.input],
              body, avail, polls)
  ELSE IF d.bad
  THEN Polled("Fail", << >>, IoError("InvalidData", NoSource),
              [dec EXCEPT !.failed = TRUE], body, avail, polls)
  ELSE DecoderPoll(a, [dec EXCEPT !.phase = d.phase, !.input = d.input],
                   body, avail, polls)

\* the item type of async_compression's decoders: io::Result<bytes_05::Bytes>
CodecItem(r) ==
  [dec |-> r.dec, body |-> r.body, avail |-> r.avail, polls |-> r.polls,
   res |-> CASE r.res = "Pending" -> Pending
             [] r.res = "None" -> ReadyNone
             [] r.res = "Data" -> ReadySome(Ok(Bytes05(r.out)))
             [] r.res = "Fail" -> ReadySome(Err(r.err))]

\* async_compression's GzipDecoder / ZlibDecoder / BrotliDecoder over
\* BodyAdapter
CodecPoll(a, dec, body, avail) == CodecItem(DecoderPoll(a, dec, body, avail, 0))

\* the item type of Lz4Decoder: Result<Bytes> in the unified error
Lz4Item(r) ==
  [dec |-> r.dec, body |-> r.body, avail |-> r.avail, polls |-> r.polls,
   res |-> CASE r.res = "Pending" -> Pending
             [] r.res = "None" -> ReadyNone
             [] r.res = "Data" -> ReadySome(Ok(Bytes(r.out)))
             [] r.res = "Fail" -> ReadySome(Err(Decode(r.err)))]

\* Lz4Decoder over the body
Lz4Poll(dec, body, avail) == Lz4Item(DecoderPoll("Lz4", dec, body, avail, 0))

\* ------------------------------------------------------------- error body
\* bytes of an error body: whitespace, a letter, a byte that is not UTF-8
TextByte == 0 .. 2

ErrorTexts == SeqsUpTo(TextByte, MaxLen)

\* String::from_utf8_lossy: invalid bytes are replaced, not rejected
from_utf8_lossy(bs) ==
  [i \in 1 .. Len(bs) |->
     CASE bs[i] = 0 -> " " [] bs[i] = 1 -> "a" [] OTHER -> "U+FFFD"]

RECURSIVE TrimStart(_)
TrimStart(t) == IF t # << >> /\ Head(t) = " " THEN TrimStart(Tail(t)) ELSE t

RECURSIVE TrimEnd(_)
TrimEnd(t) ==
  IF t # << >> /\ t[Len(t)] = " " THEN TrimEnd(SubSeq(t, 1, Len(t) - 1)) ELSE t

\* trim that strips the leading whitespace only
trim_start(t) == TrimStart(t)

\* str::trim
trim(t) == TrimEnd(TrimStart(t))

RECURSIVE to_bytes(_, _, _, _)
RECURSIVE Collect(_, _, _)

\* hyper::body::to_bytes, one poll of it: read the body until it is pending,
\* fails or ends, collecting the buffers in acc
to_bytes(acc, body, avail, polls) == Collect(acc, polls + 1, BodyPoll(body, avail))

\* to_bytes has polled the body, which gave r
Collect(acc, polls, r) ==
  IF r.res.poll = "Pending"
  THEN [res |-> "Pending", acc |-> acc, body |-> r.body, avail |-> r.avail,
        polls |-> polls, err |-> NoSource]
  ELSE IF r.res.poll = "None"
  THEN [res |-> "Done", acc |-> acc, body |-> r.body, avail |-> r.avail,
        polls |-> polls, err |-> NoSource]
  ELSE IF r.res.item.tag = "Err"
  THEN [res |-> "Err", acc |-> acc, body |-> r.body, avail |-> r.avail,
        polls |-> polls, err |-> r.res.item.val]
  ELSE to_bytes(acc \o r.res.item.val.data, r.body, r.avail, polls)

\* ------------------------------------------------------------- scenarios
Items(chunks) == [i \in 1 .. Len(chunks) |-> Ok(Bytes(chunks[i]))]

\* the body delivered whole and intact, cut into chunks in every way
CleanBodies(w) == {Items(c) : c \in Splits(w)}

\* one byte of the compressed stream replaced by an invalid one
CorruptBodies(w) ==
  UNION {CleanBodies([w EXCEPT ![k] = BadByte]) : k \in 1 .. Len(w)}

\* the compressed stream cut short
TruncatedBodies(w) ==
  UNION {CleanBodies(SubSeq(w, 1, k)) : k \in 0 .. Len(w) - 1}

\* a transport error at some position of the body
FaultBodies(w) ==
  UNION {{SubSeq(b, 1, k) \o <<Err(HyperError)>> \o SubSeq(b, k + 1, Len(b))
            : k \in 0 .. Len(b)} : b \in CleanBodies(w)}

Scenarios == {"clean", "corrupt", "truncated", "fault"}

\* the bodies of scenario s for payload p, algorithm a and status st
Bodies(s, a, p, st) ==
  LET w == IF st = StatusOK THEN Compress(a, p) ELSE p
      coded == st = StatusOK /\ a # "None"
  IN  CASE s = "clean" -> CleanBodies(w)
        [] s = "fault" -> FaultBodies(w)
        [] s = "corrupt" -> IF coded THEN CorruptBodies(w) ELSE {}
        [] s = "truncated" -> IF coded THEN TruncatedBodies(w) ELSE {}

\* ------------------------------------------------------------- state
VARIABLES
  algo,      \* the Compression given to Response::new
  outcome,   \* what the pending response resolves to: Err(_) or Ok(status)
  payload,   \* the payload (status OK) or the error text the server sent
  scn,       \* the scenario the body was drawn from
  body0,     \* the items of the body, as the transport delivers them
  self,      \* the Response: Waiting(future, compression) or Loading(chunks)
  fut,       \* the ResponseFuture: "pending", "ready" or "taken" (completed)
  body,      \* the items of the body not polled yet
  avail,     \* body events (items, then the end) arrived and not polled yet
  pc,        \* the resolve() call in progress: "idle", "await" or "to_bytes"
  acc,       \* the bytes to_bytes has collected in that call
  yielded,   \* the items poll_next has returned, in order
  raw,       \* the items the backends' poll_next returned, in order
  eod,       \* poll_next has returned end-of-data
  panicked,  \* a poll has panicked
  seen,      \* the statuses resolve() calls have inspected
  firstFail, \* the error of the first resolve() call that failed, or NoSource
  last       \* the last call made and what it did

vars == <<algo, outcome, payload, scn, body0, self, fut, body, avail, pc, acc,
          yielded, raw, eod, panicked, seen, firstFail, last>>

env == <<algo, outcome, payload, scn, body0>>

\* Response::Waiting(future, compression); the future is the variable fut
Waiting(c) == [tag |-> "Waiting", compression |-> c]

\* Loading that does not store the stream: the Response stays Waiting
LoadingNotStored(inner) ==
  [tag |-> "Waiting",
   compression |-> IF inner.variant = "Plain" THEN "None" ELSE inner.variant]

\* Response::Loading(Chunks(inner))
Loading(inner) == [tag |-> "Loading", chunks |-> inner]

\* Response::new that builds the stream at once, before any resolve()
ResponseNewEager(c) == Loading([variant |-> "Empty"])

\* Response::new
ResponseNew(c) == Waiting(c)

\* the variants of Inner
Plain == [variant |-> "Plain"]

Backend(a) == [variant |-> a, dec |-> NewDecoder]

Empty == [variant |-> "Empty"]

\* IsWaiting that takes every Response for a pending one
IsWaitingAlways(r) == TRUE

\* `if let Self::Waiting(response, compression) = self`
IsWaiting(r) == r.tag = "Waiting"

\* BadStatus as a test of the status class: every 2xx passes
BadStatusClass(st) == st \div 100 # 2

\* `response.status() != StatusCode::OK`
BadStatus(st) == st # StatusOK

\* NewInner with the arms of Gzip and Zlib exchanged
NewInnerSwapped(c) ==
  IF c = "None" THEN [variant |-> "Plain"]
  ELSE [variant |-> CASE c = "Gzip" -> "Zlib" [] c = "Zlib" -> "Gzip" [] OTHER -> c,
        dec |-> NewDecoder]

\* the match on compression that builds the backend
NewInner(c) == IF c = "None" THEN Plain ELSE Backend(c)

\* the &mut Chunks a successful resolve() returns
ChunksRef == [ty |-> "&mut Chunks"]

Ready(v) == [poll |-> "Ready", val |-> v]

\* what a call did: its result, the polls it made of the pending response and
\* of the raw body, the backends it built, and the polls it made of a backend
Did(op, res, futPolls, bodyPolls, built, backendPolls) ==
  [op |-> op, res |-> res, futPolls |-> futPolls, bodyPolls |-> bodyPolls,
   built |-> built, backendPolls |-> backendPolls]

Init ==
  /\ algo \in Compressions
  /\ outcome \in Outcomes
  /\ scn \in Scenarios
  /\ payload \in (IF outcome.tag = "Err" THEN {<< >>}
                  ELSE IF outcome.val = StatusOK THEN Payloads ELSE ErrorTexts)
  /\ body0 \in (IF outcome.tag = "Err"
                THEN (IF scn = "clean" THEN {<< >>} ELSE {})
                ELSE Bodies(scn, algo, payload, outcome.val))
  /\ self = ResponseNew(algo)
  /\ fut = "pending"
  /\ body = body0
  /\ avail = 0
  /\ pc = "idle"
  /\ acc = << >>
  /\ yielded = << >>
  /\ raw = << >>
  /\ eod = FALSE
  /\ panicked = FALSE
  /\ seen = {}
  /\ firstFail = NoSource
  /\ last = Did("new", Pending, 0, 0, 0, 0)

\* ------------------------------------------------------------- resolve
\* a poll that panicked
Panic == [poll |-> "Panic"]

\* what polling the pending response again after it completed can do
AfterCompletion == {"panic", "pending"}

\* resolve() returns res
Return(res, futPolls, bodyPolls, built) ==
  /\ pc' = "idle"
  /\ acc' = << >>
  /\ firstFail' = IF res.tag = "Err" /\ firstFail = NoSource THEN res.val
                  ELSE firstFail
  /\ last' = Did("resolve", Ready(res), futPolls, bodyPolls, built, 0)

\* resolve() is suspended at an await
Suspend(at, futPolls, bodyPolls) ==
  /\ pc' = at
  /\ firstFail' = firstFail
  /\ last' = Did("resolve", Pending, futPolls, bodyPolls, 0, 0)

\* resolve() panics
Unwind(futPolls) ==
  /\ panicked' = TRUE
  /\ pc' = "idle"
  /\ firstFail' = firstFail
  /\ last' = Did("resolve", Panic, futPolls, 0, 0, 0)

\* lines 38-41 once to_bytes has been polled, which gave r
BodyRead(r, futPolls) ==
  /\ body' = r.body
  /\ avail' = r.avail
  /\ UNCHANGED <<self, yielded, raw, eod, panicked>>
  /\ CASE r.res = "Pending" ->
            /\ acc' = r.acc
            /\ Suspend("to_bytes", futPolls, r.polls)
       [] r.res = "Err" ->
            Return(Err(FromHyper(r.err)), futPolls, r.polls, 0)
       [] r.res = "Done" ->
            Return(Err(BadResponse(trim(from_utf8_lossy(r.acc)))),
                   futPolls, r.polls, 0)

\* lines 38-41: the body of a response with a bad status is read to its end
ReadBody(futPolls) == BodyRead(to_bytes(acc, body, avail, 0), futPolls)

\* the panic of `unreachable!()`
UnreachablePanic == [poll |-> "Panic", at |-> "unreachable!()"]

\* line 62: resolve() reaches `Self::Waiting(..) => unreachable!()`
Unreachable(futPolls) ==
  /\ panicked' = TRUE
  /\ pc' = "idle"
  /\ firstFail' = firstFail
  /\ last' = Did("resolve", UnreachablePanic, futPolls, 0, 0, 0)

\* lines 61-64: the final match of resolve()
FinalMatch(r, futPolls, built) ==
  IF r.tag = "Loading"
  THEN Return(Ok(ChunksRef), futPolls, 0, built) /\ panicked' = panicked
  ELSE Unreachable(futPolls) /\ acc' = acc

\* line 35: the pending response has not completed; resolve() is suspended
AwaitPending ==
  /\ fut = "pending"
  /\ Suspend("await", 1, 0)
  /\ UNCHANGED <<self, fut, body, avail, acc, yielded, raw, eod, panicked, seen>>

\* AwaitFailed that asks for the response again instead of returning
AwaitFailedRetry ==
  /\ fut = "ready"
  /\ outcome.tag = "Err"
  /\ fut' = "pending"
  /\ Suspend("await", 1, 0)
  /\ UNCHANGED <<self, body, avail, acc, yielded, raw, eod, panicked, seen>>

\* line 35: the pending response completes with an error, which `?` returns
AwaitFailed ==
  /\ fut = "ready"
  /\ outcome.tag = "Err"
  /\ fut' = "taken"
  /\ Return(Err(FromHyper(outcome.val)), 1, 0, 0)
  /\ UNCHANGED <<self, body, avail, yielded, raw, eod, panicked, seen>>

\* lines 35-42: a response with a bad status
AwaitBadStatus ==
  /\ fut = "ready"
  /\ outcome.tag = "Ok"
  /\ BadStatus(outcome.val)
  /\ fut' = "taken"
  /\ seen' = seen \cup {outcome.val}
  /\ ReadBody(1)

\* AwaitOk that polls the body once while it builds the backend
AwaitOkPrefetch ==
  /\ fut = "ready"
  /\ outcome.tag = "Ok"
  /\ ~BadStatus(outcome.val)
  /\ fut' = "taken"
  /\ seen' = seen \cup {outcome.val}
  /\ self' = Loading(NewInner(self.compression))
  /\ FinalMatch(self', 1, 1)
  /\ body' = BodyPoll(body, avail).body
  /\ avail' = BodyPoll(body, avail).avail
  /\ UNCHANGED <<yielded, raw, eod>>

\* lines 35-64: a response with status OK; the backend is built
AwaitOk ==
  /\ fut = "ready"
  /\ outcome.tag = "Ok"
  /\ ~BadStatus(outcome.val)
  /\ fut' = "taken"
  /\ seen' = seen \cup {outcome.val}
  /\ self' = Loading(NewInner(self.compression))
  /\ FinalMatch(self', 1, 1)
  /\ UNCHANGED <<body, avail, yielded, raw, eod>>

\* line 35 again, for a pending response that has already completed
AwaitCompleted ==
  /\ fut = "taken"
  /\ \E o \in AfterCompletion :
       \/ /\ o = "panic"
          /\ Unwind(1)
          /\ UNCHANGED <<self, fut, body, avail, acc, yielded, raw, eod, seen>>
       \/ /\ o = "pending"
          /\ Suspend("await", 1, 0)
          /\ UNCHANGED <<self, fut, body, avail, acc, yielded, raw, eod,
                         panicked, seen>>

\* lines 35-58: the pending response is awaited, its status inspected and the
\* backend built
AwaitResponse ==
  \/ AwaitPending
  \/ AwaitFailed
  \/ AwaitBadStatus
  \/ AwaitOk
  \/ AwaitCompleted

\* resolve() is called and polled until it returns or is suspended
ResolveCall ==
  /\ pc = "idle"
  /\ ~panicked
  /\ UNCHANGED env
  /\ IF IsWaiting(self)
     THEN AwaitResponse
     ELSE /\ FinalMatch(self, 0, 0)
          /\ UNCHANGED <<self, fut, body, avail, yielded, raw, eod, seen>>

\* the suspended resolve() is polled again
ResolvePoll ==
  /\ pc # "idle"
  /\ ~panicked
  /\ UNCHANGED env
  /\ \/ /\ pc = "await"
        /\ AwaitResponse
     \/ /\ pc = "to_bytes"
        /\ ReadBody(0)
        /\ UNCHANGED <<fut, seen>>

\* the suspended resolve() is dropped: the call is cancelled
ResolveDrop ==
  /\ pc # "idle"
  /\ ~panicked
  /\ pc' = "idle"
  /\ acc' = << >>
  /\ last' = Did("drop", Pending, 0, 0, 0, 0)
  /\ UNCHANGED <<env, self, fut, body, avail, yielded, raw, eod, panicked, seen,
                 firstFail>>

\* ------------------------------------------------------------- Chunks
\* what a poll of the backend gave: the item mapped to the unified type
\* (`res`), the item as the backend returned it (`rawres`), the backend and
\* the body afterwards, the polls made
Dispatched(res, rawres, inner, b, av, bodyPolls, backendPolls) ==
  [res |-> res, rawres |-> rawres, inner |-> inner, body |-> b, avail |-> av,
   bodyPolls |-> bodyPolls, backendPolls |-> backendPolls]

\* line 89: Plain
PlainArm(inner, r) ==
  Dispatched(map_poll_err(r.res), r.res, inner, r.body, r.avail, 1, 1)

\* line 91: Lz4
Lz4Arm(inner, r) ==
  Dispatched(r.res, r.res, [inner EXCEPT !.dec = r.dec], r.body, r.avail,
             r.polls, 1)

\* lines 93-97: Gzip, Zlib, Brotli
CodecArm(inner, r) ==
  Dispatched(map_compression_poll(r.res), r.res, [inner EXCEPT !.dec = r.dec],
             r.body, r.avail, r.polls, 1)

\* lines 88-99: the poll of the active backend
BackendPoll(inner, b, av) ==
  CASE inner.variant = "Plain" -> PlainArm(inner, BodyPoll(b, av))
    [] inner.variant = "Lz4" -> Lz4Arm(inner, Lz4Poll(inner.dec, b, av))
    [] inner.variant \in Adapted ->
         CodecArm(inner, CodecPoll(inner.variant, inner.dec, b, av))
    [] inner.variant = "Empty" ->
         Dispatched(ReadyNone, ReadyNone, inner, b, av, 0, 0)

\* AfterPoll without the replacement: the backend is kept after end-of-data
AfterPollKeep(inner, res) == inner

\* lines 101-103: end-of-data replaces the backend by Empty
AfterPoll(inner, res) == IF res = ReadyNone THEN Empty ELSE inner

\* a decoder that has failed may panic when it is polled again
MayPanic(inner) == inner.variant \in (Adapted \cup {"Lz4"}) /\ inner.dec.failed

\* lines 101-105 once the backend has been polled, which gave r
Polling(r) ==
  /\ self' = Loading(AfterPoll(r.inner, r.res))
  /\ body' = r.body
  /\ avail' = r.avail
  /\ yielded' = IF r.res.poll = "Some" THEN Append(yielded, r.res.item)
                ELSE yielded
  /\ raw' = IF r.rawres.poll = "Some" /\ r.backendPolls > 0
            THEN Append(raw, r.rawres.item) ELSE raw
  /\ eod' = (eod \/ r.res = ReadyNone)
  /\ last' = Did("poll_next", r.res, 0, r.bodyPolls, 0, r.backendPolls)
  /\ panicked' = panicked

\* the poll of a decoder that has failed panics
PollPanics ==
  /\ MayPanic(self.chunks)
  /\ panicked' = TRUE
  /\ last' = Did("poll_next", Panic, 0, 0, 0, 1)
  /\ UNCHANGED <<self, body, avail, yielded, raw, eod>>

\* Chunks::poll_next
PollNext ==
  /\ self.tag = "Loading"
  /\ pc = "idle"
  /\ ~panicked
  /\ Len(yielded) < MaxYield
  /\ \/ Polling(BackendPoll(self.chunks, body, avail))
     \/ PollPanics
  /\ UNCHANGED <<env, fut, pc, acc, seen, firstFail>>

\* ------------------------------------------------------------- size_hint
\* Option<usize>
Some(n) == [some |-> TRUE, val |-> n]
NoUpper == [some |-> FALSE]

\* a (lower, upper) size hint
Hint(lower, upper) == <<lower, upper>>

\* the hint of the raw body: the items the transport has still to produce
BodySizeHint(b) == Hint(Len(b), Some(Len(b)))

\* lines 141-143: BodyAdapter forwards the hint of the body
BodyAdapterSizeHint(b) == BodySizeHint(b)

\* the hint of a decoder over an adapted body: a decoder cannot tell how many
\* buffers its input will give, whatever the hint of its input
DecoderSizeHint(adapted) == Hint(0, NoUpper)

\* the hint of the Lz4 decoder over the raw body
Lz4SizeHint(b) == Hint(0, NoUpper)

\* size_hint that reports the hint of a stream that knows nothing
size_hint_default(inner, b) == Hint(0, NoUpper)

\* lines 108-122: Chunks::size_hint
size_hint(inner, b) ==
  CASE inner.variant = "Plain" -> BodySizeHint(b)
    [] inner.variant = "Lz4" -> Lz4SizeHint(b)
    [] inner.variant \in Adapted -> DecoderSizeHint(BodyAdapterSizeHint(b))
    [] inner.variant = "Empty" -> Hint(0, Some(0))

\* a call of size_hint has returned hint
Hinted(hint) == [poll |-> "Hint", hint |-> hint]

\* Chunks::size_hint on a resolved stream
SizeHint ==
  /\ self.tag = "Loading"
  /\ pc = "idle"
  /\ ~panicked
  /\ last' = Did("size_hint", Hinted(size_hint(self.chunks, body)), 0, 0, 0, 0)
  /\ UNCHANGED <<env, self, fut, body, avail, pc, acc, yielded, raw, eod,
                 panicked, seen, firstFail>>

\* ------------------------------------------------------------- environment
\* the transport produces the response head (or fails)
HeadersArrive ==
  /\ fut = "pending"
  /\ fut' = "ready"
  /\ UNCHANGED <<env, self, body, avail, pc, acc, yielded, raw, eod, panicked,
                 seen, firstFail, last>>

\* the transport delivers the next item of the body, or its end
Deliver ==
  /\ fut # "pending"
  /\ outcome.tag = "Ok"
  /\ avail <= Len(body)
  /\ ~panicked
  /\ avail' = avail + 1
  /\ UNCHANGED <<env, self, fut, body, pc, acc, yielded, raw, eod, panicked,
                 seen, firstFail, last>>

Next ==
  \/ ResolveCall
  \/ ResolvePoll
  \/ ResolveDrop
  \/ PollNext
  \/ SizeHint
  \/ HeadersArrive
  \/ Deliver

Spec == Init /\ [][Next]_vars

\* ------------------------------------------------------------- types
TypeOK ==
  /\ self.tag \in {"Waiting", "Loading"}
  /\ fut \in {"pending", "ready", "taken"}
  /\ pc \in {"idle", "await", "to_bytes"}
  /\ avail \in 0 .. Len(body) + 1
  /\ Len(yielded) <= MaxYield

\* ------------------------------------------------------------- claims
\* the bytes of the buffers among the items
Datas(items) == [i \in 1 .. Len(items) |-> items[i].val.data]

\* a resolve() call has returned (it is neither suspended nor panicked)
Resolved == last.op = "resolve" /\ last.res.poll = "Ready"

\* the response arrived with a status other than OK
BadStatusArrived == outcome.tag = "Ok" /\ outcome.val # StatusOK

\* C1: once poll_next has returned end-of-data, every later poll_next returns
\* end-of-data again, yields nothing, and polls neither the raw body nor a
\* backend.
C1_IdempotentExhaustion ==
  [][(eod /\ PollNext) =>
       /\ last'.res = ReadyNone
       /\ last'.bodyPolls = 0
       /\ last'.backendPolls = 0
       /\ UNCHANGED <<self, body, avail, yielded, raw, eod>>]_vars

\* C1 witness: a poll made after exhaustion, which polled no backend
C1_Witness ==
  /\ eod
  /\ last.op = "poll_next"
  /\ last.res = ReadyNone
  /\ last.backendPolls = 0

\* C2 as stated: a resolve() call that found a status other than OK returns
\* BadResponse, and no Chunks is built or polled.
C2_StatusGateAsStated ==
  (BadStatusArrived /\ Resolved) =>
    /\ last.res.val.tag = "Err"
    /\ last.res.val.val.class = "BadResponse"
    /\ self.tag = "Waiting"

\* C2 amended: a resolve() call that found a status other than OK returns
\* BadResponse when the body was read to its end and a Transport error when
\* reading the body failed; for every algorithm the Response stays Waiting and
\* no Chunks is built or polled.
C2_StatusGate ==
  BadStatusArrived =>
    /\ self.tag = "Waiting"
    /\ last.built = 0
    /\ yielded = << >>
    /\ raw = << >>
    /\ Resolved =>
         /\ last.res.val.tag = "Err"
         /\ last.res.val.val.class =
              (IF scn = "fault" THEN "Transport" ELSE "BadResponse")

\* C2 witness: BadResponse returned for a 204 response under a compression
C2_Witness ==
  /\ BadStatusArrived
  /\ outcome.val = 204
  /\ algo = "Gzip"
  /\ Resolved
  /\ last.res.val.val.class = "BadResponse"
  /\ Len(body0) > 1

\* an item of a decoder (io::Result<bytes_05::Bytes>) as Chunks yields it
Mapped(item) ==
  IF item.tag = "Ok" THEN Ok(Bytes(item.val.data)) ELSE Err(Decode(item.val))

\* the body is a compressed stream that is corrupted or cut short, read by a
\* decoder behind BodyAdapter
CorruptedStream ==
  /\ algo \in Adapted
  /\ scn \in {"corrupt", "truncated"}
  /\ self.tag = "Loading"

\* C3: for a corrupted compressed stream read by Gzip, Zlib or Brotli, Chunks
\* yields every item the decoder produced, in order, and an error item is a
\* Decode error, is the only one and is the last item yielded.
C3_PartialFailureOrdering ==
  CorruptedStream =>
    /\ yielded = [i \in 1 .. Len(raw) |-> Mapped(raw[i])]
    /\ \A i \in 1 .. Len(yielded) :
         yielded[i].tag = "Err" =>
           /\ yielded[i].val.class = "Decode"
           /\ i = Len(yielded)

\* C4: a Response is Loading only after a resolve() call found the status OK;
\* the step from Waiting to Loading is made by a resolve() call that builds
\* one backend; a Loading Response stays Loading; no backend is built for a
\* Response that is already Loading.
C4_WaitingToLoadingOnce ==
  /\ [](self.tag = "Loading" => StatusOK \in seen)
  /\ [][/\ self.tag = "Loading" => self'.tag = "Loading"
        /\ (self.tag = "Waiting" /\ self'.tag = "Loading") =>
             (last'.op = "resolve" /\ last'.built = 1 /\ (ResolveCall \/ ResolvePoll))
        /\ (self.tag = "Loading" /\ last' # last) => last'.built = 0]_vars

\* C4 witness: still Loading after polls to the end and a further resolve()
C4_Witness ==
  /\ self.tag = "Loading"
  /\ eod
  /\ yielded # << >>
  /\ last.op = "resolve"
  /\ last.built = 0

\* C5: a resolve() call on a Loading Response returns the Chunks at once: it
\* does not await the pending response, inspect a status, build a backend or
\* touch the body, and the Chunks is as earlier polls left it.
C5_ResolveAgainReturnsSameChunks ==
  [][(self.tag = "Loading" /\ ResolveCall) =>
       /\ last' = Did("resolve", Ready(Ok(ChunksRef)), 0, 0, 0, 0)
       /\ pc' = "idle"
       /\ UNCHANGED <<self, fut, body, avail, yielded, raw, eod, seen, panicked>>]_vars

\* C5 witness: resolve() after the stream was read to exhaustion
C5_Witness ==
  /\ self = Loading(Empty)
  /\ yielded # << >>
  /\ last = Did("resolve", Ready(Ok(ChunksRef)), 0, 0, 0, 0)

\* C6: once a resolve() call has failed, a later resolve() call returns the
\* same error and polls neither the pending response nor the body.
C6_ResolveIdempotentAfterFailure ==
  [][(firstFail # NoSource /\ (ResolveCall \/ ResolvePoll)) =>
       /\ last'.res = Ready(Err(firstFail))
       /\ last'.futPolls = 0
       /\ last'.bodyPolls = 0]_vars

\* C7: when the pending response completes with an error, the resolve() call
\* that awaited it returns a Transport error, having polled the pending
\* response once and the body never; the Response stays Waiting and no backend
\* is built, in that call or later.
C7_TransportFailure ==
  /\ [](outcome.tag = "Err" => (self = Waiting(algo) /\ yielded = << >>))
  /\ [][(fut = "ready" /\ outcome.tag = "Err" /\ (ResolveCall \/ ResolvePoll)) =>
          /\ last' = Did("resolve", Ready(Err(Transport(HyperError))), 1, 0, 0, 0)
          /\ pc' = "idle"
          /\ fut' = "taken"
          /\ self' = self]_vars

\* C7 witness: resolve() has returned the Transport error of the failed await
C7_Witness ==
  /\ outcome.tag = "Err"
  /\ fut = "taken"
  /\ self.tag = "Waiting"
  /\ last = Did("resolve", Ready(Err(Transport(HyperError))), 1, 0, 0, 0)

\* the response has status OK and its body arrives whole and intact
CleanStream ==
  /\ outcome.tag = "Ok"
  /\ outcome.val = StatusOK
  /\ scn = "clean"
  /\ self.tag = "Loading"

\* s is a prefix of t
IsPrefix(s, t) == Len(s) <= Len(t) /\ s = SubSeq(t, 1, Len(s))

\* C8: when the body is the payload compressed with the algorithm given (the
\* payload itself for None, cut into chunks in any way) and the status is OK,
\* every item Chunks yields is a canonical buffer, the buffers yielded so far
\* concatenate to a prefix of the payload, and to the payload itself once
\* end-of-data has been returned.
C8_RoundTrip ==
  CleanStream =>
    /\ \A i \in 1 .. Len(yielded) :
         yielded[i].tag = "Ok" /\ yielded[i].val.ty = "Bytes"
    /\ IsPrefix(Concat(Datas(yielded)), payload)
    /\ eod => Concat(Datas(yielded)) = payload

\* C8 witness: a Gzip stream of a payload of two bytes decoded to its end in
\* two chunks
C8_Witness ==
  /\ CleanStream
  /\ algo = "Gzip"
  /\ eod
  /\ Len(payload) = 2
  /\ Len(yielded) = 2

\* a transport item as the Plain backend yields it
PlainItem(item) ==
  IF item.tag = "Ok" THEN item ELSE Err(Transport(item.val))

\* C9: under the Plain backend the items yielded are the transport items
\* polled so far, one for one and in order, the buffers unchanged and each
\* transport error as a Transport error at its position.
C9_PlainPassThrough ==
  (algo = "None" /\ self.tag = "Loading") =>
    /\ Len(body) <= Len(body0)
    /\ yielded = [i \in 1 .. Len(body0) - Len(body) |-> PlainItem(body0[i])]
    /\ raw = SubSeq(body0, 1, Len(body0) - Len(body))

\* C9 witness: a body of a buffer, a transport error and a buffer was yielded
\* to its end
C9_Witness ==
  /\ algo = "None"
  /\ eod
  /\ Len(yielded) = 3
  /\ yielded[1].tag = "Ok"
  /\ yielded[2] = Err(Transport(HyperError))
  /\ yielded[3].tag = "Ok"

C11_ErrorsAreFinal ==
  \A i \in 1 .. Len(yielded) : yielded[i].tag = "Err" => i = Len(yielded)

\* C13: Chunks is Exhausted exactly when a poll_next call has returned
\* end-of-data, and the call that returns end-of-data leaves Chunks Exhausted.
C13_EagerRelease ==
  /\ [](eod <=> (self.tag = "Loading" /\ self.chunks = Empty))
  /\ [][(PollNext /\ last'.res = ReadyNone) => self' = Loading(Empty)]_vars

\* C13 witness: the poll that first saw the end of a decoder's stream left
\* Chunks Exhausted
C13_Witness ==
  /\ eod
  /\ self = Loading(Empty)
  /\ algo \in Adapted
  /\ last.op = "poll_next"
  /\ last.backendPolls = 1

\* the variant of Inner that belongs to an algorithm
VariantOf(c) == IF c = "None" THEN "Plain" ELSE c

\* C17: the resolve() call that takes the Response from Waiting to Loading
\* builds one backend, the one of the algorithm given to new(), not
\* Exhausted; afterwards the variant is that one or, in the end, Exhausted.
C17_BackendMatchesAlgorithm ==
  /\ [](self.tag = "Loading" => self.chunks.variant \in {VariantOf(algo), "Empty"})
  /\ [][(self.tag = "Waiting" /\ self'.tag = "Loading") =>
          /\ self'.chunks.variant = VariantOf(algo)
          /\ self'.chunks.variant = "Plain" \/ self'.chunks.dec = NewDecoder
          /\ last'.built = 1]_vars

\* C17 witness: a Zlib Response just resolved
C17_Witness ==
  /\ algo = "Zlib"
  /\ self = Loading(Backend("Zlib"))
  /\ last = Did("resolve", Ready(Ok(ChunksRef)), 1, 0, 1, 0)

\* C18: a resolve() call never polls the pending response after it has
\* completed.
C18_CompletedFutureNotPolled ==
  [][(fut = "taken" /\ (ResolveCall \/ ResolvePoll)) => last'.futPolls = 0]_vars

\* C19: resolve() never reaches unreachable!(): a call that gets to the final
\* match finds the Response Loading and returns its Chunks.
C19_UnreachableNotReached ==
  /\ [](last.res # UnreachablePanic)
  /\ [][((ResolveCall \/ ResolvePoll) /\ self'.tag = "Waiting") =>
          last'.res # Ready(Ok(ChunksRef))]_vars

\* C19 witness: the first resolve() went through the final match and returned
\* the Chunks it had just built
C19_Witness ==
  /\ self.tag = "Loading"
  /\ last = Did("resolve", Ready(Ok(ChunksRef)), 1, 0, 1, 0)
  /\ ~panicked

\* C12: size_hint returns (0, Some(0)) when Chunks is Exhausted, in every
\* other state the hint of the active backend as the backend gives it, and it
\* changes nothing of Chunks or of the body under it.
C12_SizeHint ==
  [][SizeHint =>
       /\ last'.res.hint =
            IF eod THEN <<0, [some |-> TRUE, val |-> 0]>>
            ELSE IF algo = "None" THEN BodySizeHint(body)
            ELSE IF algo = "Lz4" THEN Lz4SizeHint(body)
            ELSE DecoderSizeHint(BodySizeHint(body))
       /\ self' = self
       /\ body' = body
       /\ avail' = avail]_vars

\* C12 witness: size_hint was called on an Exhausted stream and gave (0, Some(0))
C12_Witness ==
  /\ self = Loading(Empty)
  /\ last.op = "size_hint"
  /\ last.res.hint = <<0, [some |-> TRUE, val |-> 0]>>

\* C14: the raw body is polled only inside a poll_next call, or inside a
\* resolve() call on a response with a bad status: no other step touches it,
\* a resolve() call on a status OK polls it zero times, a poll_next call
\* under Plain polls it exactly once, and after end-of-data no call polls it.
C14_PullBased ==
  [][/\ (body' # body \/ avail' < avail) =>
          (PollNext \/ (BadStatusArrived /\ (ResolveCall \/ ResolvePoll)))
     /\ ((ResolveCall \/ ResolvePoll) /\ ~BadStatusArrived) =>
          (body' = body /\ avail' = avail /\ last'.bodyPolls = 0)
     /\ (PollNext /\ self.chunks = Plain) => last'.bodyPolls = 1
     /\ (PollNext /\ eod) =>
          (body' = body /\ avail' = avail /\ last'.bodyPolls = 0)]_vars

\* C14 witness: under Plain, with two items delivered, one poll_next call
\* polled the body once and took one item
C14_Witness ==
  /\ algo = "None"
  /\ self = Loading(Plain)
  /\ last.op = "poll_next"
  /\ last.res.poll = "Some"
  /\ last.bodyPolls = 1
  /\ Len(body0) = 2
  /\ Len(body) = 1
  /\ avail >= 1

\* C15: a poll_next call that returns gives Pending exactly when the poll of
\* the active backend gave Pending (never when Exhausted); a call that gives
\* Pending, a buffer or an error leaves the variant of the backend as it was,
\* and the only change of variant is to Exhausted, with end-of-data.
C15_PendingPassThrough ==
  [][(PollNext /\ last'.res # Panic) =>
       /\ (last'.res = Pending) <=>
            (BackendPoll(self.chunks, body, avail).rawres = Pending)
       /\ self.chunks = Empty => last'.res = ReadyNone
       /\ self'.tag = "Loading"
       /\ last'.res # ReadyNone => self'.chunks.variant = self.chunks.variant
       /\ last'.res = ReadyNone => self'.chunks = Empty]_vars

\* C15 witness: a poll of a Plain backend gave Pending and left it in place
\* after an earlier poll had yielded a buffer
C15_Witness ==
  /\ self = Loading(Plain)
  /\ last = Did("poll_next", Pending, 0, 1, 0, 1)
  /\ Len(yielded) = 1
  /\ body # << >>

\* reason is text without the whitespace at its two ends
IsTrimmed(reason, text) ==
  /\ reason = << >> \/ (reason[1] # " " /\ reason[Len(reason)] # " ")
  /\ \E a, b \in 0 .. Len(text) :
       /\ a + b <= Len(text)
       /\ \A i \in 1 .. a : text[i] = " "
       /\ \A i \in (Len(text) - b + 1) .. Len(text) : text[i] = " "
       /\ reason = SubSeq(text, a + 1, Len(text) - b)

\* resolve() returned BadResponse with the text the server sent, trimmed,
\* having read the body to its end and built no backend
ReturnedBadResponse ==
  /\ last.res.val.tag = "Err"
  /\ last.res.val.val.class = "BadResponse"
  /\ IsTrimmed(last.res.val.val.src, from_utf8_lossy(payload))
  /\ body = << >>
  /\ self = Waiting(algo)
  /\ last.built = 0

\* C16 as stated: for a status other than OK resolve() reads the whole body
\* and returns BadResponse whose reason is the body as text, lossily decoded
\* and trimmed, whatever the algorithm.
C16_ErrorBodyAsStated ==
  (BadStatusArrived /\ Resolved) => ReturnedBadResponse

\* C16 amended: for a status other than OK, a resolve() call that reads the
\* body to its end returns BadResponse whose reason is the body as text,
\* lossily decoded and trimmed, whatever the algorithm and however the body
\* was cut into chunks; when reading the body fails it returns Transport.
C16_ErrorBody ==
  (BadStatusArrived /\ Resolved) =>
    IF scn = "fault"
    THEN /\ last.res.val.tag = "Err"
         /\ last.res.val.val.class = "Transport"
         /\ self = Waiting(algo)
    ELSE ReturnedBadResponse

\* C16 witness: status 500 under Brotli, the text "a " sent in two chunks,
\* gives BadResponse("a")
C16_Witness ==
  /\ BadStatusArrived
  /\ outcome.val = 500
  /\ algo = "Brotli"
  /\ payload = <<1, 0>>
  /\ Len(body0) = 2
  /\ Resolved
  /\ last.res.val.val.class = "BadResponse"
  /\ last.res.val.val.src = <<"a">>

====
